---- MODULE Spec2Model ----
(***************************************************************************)
(* Model of message_handler.py: the base64 transcoder (decode_payload,     *)
(* encode_payload) and the type-routed dispatcher MessageHandler           *)
(* (add_function, validate_json, generate_reply).                          *)
(*                                                                         *)
(* Python values are records [k, v]: k is the Python type, v the content.  *)
(* A str is a sequence of one-character strings (an error text is a        *)
(* sequence of text pieces), a bytes object is a sequence of 0..255.       *)
(***************************************************************************)
EXTENDS Integers, Sequences, FiniteSets, TLC

\* function_dictionary  the registry of the MessageHandler
\* message              the mapping the caller holds and passes to generate_reply
\* pc                   "ready": no call has answered message yet; "done": the
\*                      last step was a generate_reply call
\* request              the mapping as it was when the last call was entered
\* reply, fault         what the last call returned, or the fault that left it
\* calls                the handler calls the last call made
\* lastRegistered       history: per type, the handler registered last
VARIABLES function_dictionary, message, pc, request, reply, fault, calls,
          lastRegistered

vars == <<function_dictionary, message, pc, request, reply, fault, calls,
          lastRegistered>>

(***************************************************************************)
(* Bounds of the model.                                                    *)
(***************************************************************************)
\* longest binary payload drawn as an input
MaxLen == 3

(***************************************************************************)
(* Python values.                                                          *)
(***************************************************************************)
Str(s) == [k |-> "str", v |-> s]

Bytes(b) == [k |-> "bytes", v |-> b]

IntValue == [k |-> "int", v |-> <<>>]

EmptyDict == [x \in {} |-> x]

Dict(f) == [kind |-> "dict", fields |-> f]

NoneValue == [kind |-> "NoneType", fields |-> EmptyDict]

Put(f, key, val) == [x \in (DOMAIN f) \cup {key} |-> IF x = key THEN val ELSE f[x]]

\* outcome of a call: a returned value, or a raised exception
Ok(val) == [ok |-> TRUE, val |-> val]

Raise(e) == [ok |-> FALSE, exc |-> e]

Exc(cls, text) == [cls |-> cls, text |-> text]

(***************************************************************************)
(* The four error kinds of the module; text is the message attribute.      *)
(***************************************************************************)
UnrecognizedFileTypeError == Exc("UnrecognizedFileTypeError", <<"File type not recognized">>)

MissingPayloadError == Exc("MissingPayloadError", <<"Message has no payload">>)

PayloadNotBase64Error == Exc("PayloadNotBase64Error", <<"Message payload cannot be decoded from base64">>)

CantEncodePayloadError == Exc("CantEncodePayloadError", <<"Cannot encode payload into base64">>)

OwnKinds == {"UnrecognizedFileTypeError", "MissingPayloadError",
             "PayloadNotBase64Error", "CantEncodePayloadError"}

\* classes that derive from BaseException but not from Exception
NonExceptionClasses == {"SystemExit", "KeyboardInterrupt", "GeneratorExit"}

\* str(KeyError(key)) is the repr of the key
KeyError(key) == Exc("KeyError", <<"'" \o key \o "'">>)

(***************************************************************************)
(* Characters and their code points.                                       *)
(***************************************************************************)
Upper == <<"A","B","C","D","E","F","G","H","I","J","K","L","M",
           "N","O","P","Q","R","S","T","U","V","W","X","Y","Z">>

Lower == <<"a","b","c","d","e","f","g","h","i","j","k","l","m",
           "n","o","p","q","r","s","t","u","v","w","x","y","z">>

Digit == <<"0","1","2","3","4","5","6","7","8","9">>

\* the character e-acute, outside ASCII
EAcute == "U+00E9"

Range(s) == {s[i] : i \in 1..Len(s)}

Index(s, c) == CHOOSE i \in 1..Len(s) : s[i] = c

Ord(c) ==
  IF c \in Range(Upper) THEN 64 + Index(Upper, c)
  ELSE IF c \in Range(Lower) THEN 96 + Index(Lower, c)
  ELSE IF c \in Range(Digit) THEN 47 + Index(Digit, c)
  ELSE CASE c = "+" -> 43
         [] c = "/" -> 47
         [] c = "=" -> 61
         [] c = "-" -> 45
         [] c = "!" -> 33
         [] c = "_" -> 95
         [] c = EAcute -> 233

Chr(n) ==
  IF n \in 65..90 THEN Upper[n - 64]
  ELSE IF n \in 97..122 THEN Lower[n - 96]
  ELSE IF n \in 48..57 THEN Digit[n - 47]
  ELSE CASE n = 43 -> "+"
         [] n = 47 -> "/"
         [] n = 61 -> "="
         [] n = 45 -> "-"
         [] n = 33 -> "!"
         [] n = 95 -> "_"
         [] n = 233 -> EAcute

(***************************************************************************)
(* base64.b64encode: binascii.b2a_base64 without the newline.              *)
(***************************************************************************)
\* the URL-safe alphabet, whose last two characters are - and _
table_b2a_urlsafe(i) ==
  IF i < 26 THEN 65 + i
  ELSE IF i < 52 THEN 97 + (i - 26)
  ELSE IF i < 62 THEN 48 + (i - 52)
  ELSE IF i = 62 THEN 45 ELSE 95

\* the code of the i-th character of the standard alphabet, i in 0..63
table_b2a_base64(i) ==
  IF i < 26 THEN 65 + i
  ELSE IF i < 52 THEN 97 + (i - 26)
  ELSE IF i < 62 THEN 48 + (i - 52)
  ELSE IF i = 62 THEN 43 ELSE 47

RECURSIVE b2a_base64(_)
b2a_base64(b) ==
  IF Len(b) = 0 THEN <<>>
  ELSE IF Len(b) = 1 THEN
    << table_b2a_base64(b[1] \div 4),
       table_b2a_base64((b[1] % 4) * 16),
       61, 61 >>
  ELSE IF Len(b) = 2 THEN
    << table_b2a_base64(b[1] \div 4),
       table_b2a_base64((b[1] % 4) * 16 + (b[2] \div 16)),
       table_b2a_base64((b[2] % 16) * 4),
       61 >>
  ELSE
    << table_b2a_base64(b[1] \div 4),
       table_b2a_base64((b[1] % 4) * 16 + (b[2] \div 16)),
       table_b2a_base64((b[2] % 16) * 4 + (b[3] \div 64)),
       table_b2a_base64(b[3] % 64) >>
    \o b2a_base64(SubSeq(b, 4, Len(b)))

\* b64encode takes a bytes-like object and returns bytes
b64encode(val) ==
  IF val.k = "bytes" THEN Ok(Bytes(b2a_base64(val.v)))
  ELSE Raise(Exc("TypeError",
                 <<"a bytes-like object is required, not '", val.k, "'">>))

\* bytes.decode("utf-8") of ASCII bytes
decode_utf8(b) == Str([i \in 1..Len(b.v) |-> Chr(b.v[i])])

(***************************************************************************)
(* base64.b64decode(s) with validate=False: binascii.a2b_base64 in its     *)
(* non-strict mode.                                                        *)
(***************************************************************************)
\* the 6-bit value of a code, 64 for a code outside the alphabet
table_a2b_base64(c) ==
  IF c \in 65..90 THEN c - 65
  ELSE IF c \in 97..122 THEN c - 97 + 26
  ELSE IF c \in 48..57 THEN c - 48 + 52
  ELSE IF c = 43 THEN 62
  ELSE IF c = 47 THEN 63
  ELSE 64

BinasciiError(text) == Exc("binascii.Error", text)

RECURSIVE a2b_loop(_, _, _, _, _, _)
a2b_loop(data, i, quad_pos, pads, leftchar, out) ==
  IF i > Len(data) THEN
    IF quad_pos = 0 THEN Ok(Bytes(out))
    ELSE IF quad_pos = 1 THEN
      Raise(BinasciiError(
        <<"Invalid base64-encoded string: number of data characters (",
          ToString((Len(out) \div 3) * 4 + 1),
          ") cannot be 1 more than a multiple of 4">>))
    ELSE Raise(BinasciiError(<<"Incorrect padding">>))
  ELSE IF data[i] = 61 THEN
    \* a pad: a complete pad sequence ends the parse, excess data is ignored
    IF quad_pos >= 2 /\ quad_pos + pads + 1 >= 4 THEN Ok(Bytes(out))
    ELSE a2b_loop(data, i + 1, quad_pos,
                  IF quad_pos >= 2 THEN pads + 1 ELSE pads, leftchar, out)
  ELSE LET this_ch == table_a2b_base64(data[i]) IN
    \* a character outside the alphabet is skipped
    IF this_ch >= 64 THEN a2b_loop(data, i + 1, quad_pos, pads, leftchar, out)
    ELSE IF quad_pos = 0 THEN a2b_loop(data, i + 1, 1, 0, this_ch, out)
    ELSE IF quad_pos = 1 THEN
      a2b_loop(data, i + 1, 2, 0, this_ch % 16,
               Append(out, leftchar * 4 + (this_ch \div 16)))
    ELSE IF quad_pos = 2 THEN
      a2b_loop(data, i + 1, 3, 0, this_ch % 4,
               Append(out, leftchar * 16 + (this_ch \div 4)))
    ELSE a2b_loop(data, i + 1, 0, 0, 0, Append(out, leftchar * 64 + this_ch))

a2b_base64(data) == a2b_loop(data, 1, 0, 0, 0, <<>>)

\* base64._bytes_from_decode_data: a str is encoded as ASCII, bytes pass
bytes_from_decode_data(val) ==
  IF val.k = "str" THEN
    IF \E i \in 1..Len(val.v) : Ord(val.v[i]) > 127
    THEN Raise(Exc("ValueError",
                   <<"string argument should contain only ASCII characters">>))
    ELSE Ok([i \in 1..Len(val.v) |-> Ord(val.v[i])])
  ELSE IF val.k = "bytes" THEN Ok(val.v)
  ELSE Raise(Exc("TypeError",
                 <<"argument should be a bytes-like object or ASCII string, not '",
                   val.k, "'">>))

b64decode(val) ==
  LET d == bytes_from_decode_data(val) IN
  IF d.ok THEN a2b_base64(d.val) ELSE d

(***************************************************************************)
(* decode_payload and encode_payload, on a mapping with a payload key.     *)
(***************************************************************************)
decode_payload(m) ==
  IF "payload" \notin DOMAIN m THEN Raise(KeyError("payload"))
  ELSE LET r == b64decode(m["payload"]) IN
    IF r.ok THEN Ok(Put(m, "payload", r.val))
    ELSE IF r.exc.cls = "binascii.Error" THEN Raise(PayloadNotBase64Error)
    ELSE r

encode_payload(m) ==
  IF "payload" \notin DOMAIN m THEN Raise(KeyError("payload"))
  ELSE LET r == b64encode(m["payload"]) IN
    IF r.ok THEN Ok(Put(m, "payload", decode_utf8(r.val)))
    ELSE IF r.exc.cls = "binascii.Error" THEN Raise(CantEncodePayloadError)
    ELSE r

(***************************************************************************)
(* Inputs of the transcoder.                                               *)
(***************************************************************************)
ByteSet == {0, 104, 105, 255}

SeqsUpTo(S, n) == UNION {[1..l -> S] : l \in 0..n}

BinaryPayloads == SeqsUpTo(ByteSet, MaxLen)

(***************************************************************************)
(* Handlers: the callables a caller registers.  Each is called with the    *)
(* fields of the message as keyword arguments (kw below); a handler either *)
(* returns a value or raises.                                              *)
(*   echo     takes any keywords, returns kw['payload']                    *)
(*   name_of  takes any keywords, returns kw['name']                       *)
(*   greet    declares the parameters type, payload, name; returns name    *)
(*   text     takes any keywords, returns the str 'hi'                     *)
(*   fail     takes any keywords, raises ValueError('boom')                *)
(*   exit     takes any keywords, raises SystemExit('bye')                 *)
(*   reject   takes any keywords, raises MissingPayloadError               *)
(***************************************************************************)
Handlers == {"echo", "name_of", "greet", "text", "fail", "exit", "reject"}

RequiredParams(h) == IF h = "greet" THEN {"type", "payload", "name"} ELSE {}

HandlerBody(h, kwargs) ==
  CASE h = "echo" -> Ok(kwargs["payload"])
    [] h = "name_of" -> IF "name" \in DOMAIN kwargs THEN Ok(kwargs["name"])
                        ELSE Raise(KeyError("name"))
    [] h = "greet" -> Ok(kwargs["name"])
    [] h = "text" -> Ok(Str(<<"h", "i">>))
    [] h = "fail" -> Raise(Exc("ValueError", <<"boom">>))
    [] h = "exit" -> Raise(Exc("SystemExit", <<"bye">>))
    [] h = "reject" -> Raise(MissingPayloadError)

\* the call of h with keyword arguments: argument binding, then the body
Invoke(h, kwargs) ==
  LET missing == RequiredParams(h) \ DOMAIN kwargs IN
  IF missing # {} THEN
    Raise(Exc("TypeError",
              <<h, "() missing ", ToString(Cardinality(missing)),
                " required positional argument: ",
                "'" \o (CHOOSE p \in missing : TRUE) \o "'">>))
  ELSE HandlerBody(h, kwargs)

(***************************************************************************)
(* MessageHandler.                                                         *)
(***************************************************************************)
\* dict.setdefault: an existing entry is kept
RegistryKeepFirst(fd, file_type, f) ==
  IF file_type \in DOMAIN fd THEN fd ELSE Put(fd, file_type, f)

\* self.function_dictionary[file_type] = f
RegistryPut(fd, file_type, f) == Put(fd, file_type, f)

\* a lookup self.function_dictionary[type] in place of the membership test
validate_json_by_lookup(fd, msg) ==
  IF msg.kind # "dict" THEN
    Raise(Exc("TypeError", <<"'", msg.kind, "' object is not subscriptable">>))
  ELSE IF "type" \notin DOMAIN msg.fields THEN Raise(KeyError("type"))
  ELSE IF msg.fields["type"] \notin DOMAIN fd
    THEN Raise(KeyError(msg.fields["type"]))
  ELSE Ok(msg.fields)

validate_json(fd, msg) ==
  IF msg.kind # "dict" THEN
    Raise(Exc("TypeError", <<"'", msg.kind, "' object is not subscriptable">>))
  ELSE IF "type" \notin DOMAIN msg.fields THEN Raise(KeyError("type"))
  ELSE IF msg.fields["type"] \notin DOMAIN fd THEN Raise(UnrecognizedFileTypeError)
  ELSE Ok(msg.fields)

NoReply == EmptyDict

NoFault == "none"

ErrorReply(text) == [status |-> "error", payload |-> Str(text)]

Returned(r, msg, cs) == [reply |-> r, fault |-> NoFault, message |-> msg, calls |-> cs]

\* no except clause matched: the finally block's "return reply" reads the
\* unbound local and that fault leaves generate_reply
Unbound(msg, cs) ==
  [reply |-> NoReply, fault |-> "UnboundLocalError", message |-> msg, calls |-> cs]

\* the ladder without its "except KeyError" clause
ExceptClauses_NoKeyError(exc, msg, cs) ==
  IF exc.cls \in OwnKinds THEN Returned(ErrorReply(exc.text), msg, cs)
  ELSE IF exc.cls \notin NonExceptionClasses
    THEN Returned(ErrorReply(<<"Server error: ">> \o exc.text), msg, cs)
  ELSE Unbound(msg, cs)

\* the ladder without its "except Exception" clause
ExceptClauses_NoCatchAll(exc, msg, cs) ==
  IF exc.cls \in OwnKinds THEN Returned(ErrorReply(exc.text), msg, cs)
  ELSE IF exc.cls = "KeyError"
    THEN Returned(ErrorReply(<<"JSON object missing required field">> \o exc.text), msg, cs)
  ELSE Unbound(msg, cs)

\* the ladder with "except (KeyError, TypeError)"
ExceptClauses_TypeErrorAsMissing(exc, msg, cs) ==
  IF exc.cls \in OwnKinds THEN Returned(ErrorReply(exc.text), msg, cs)
  ELSE IF exc.cls \in {"KeyError", "TypeError"}
    THEN Returned(ErrorReply(<<"JSON object missing required field">> \o exc.text), msg, cs)
  ELSE IF exc.cls \notin NonExceptionClasses
    THEN Returned(ErrorReply(<<"Server error: ">> \o exc.text), msg, cs)
  ELSE Unbound(msg, cs)

\* the except clauses of generate_reply, in order, and its finally block
ExceptClauses(exc, msg, cs) ==
  IF exc.cls \in OwnKinds THEN Returned(ErrorReply(exc.text), msg, cs)
  ELSE IF exc.cls = "KeyError"
    THEN Returned(ErrorReply(<<"JSON object missing required field">> \o exc.text), msg, cs)
  ELSE IF exc.cls \notin NonExceptionClasses
    THEN Returned(ErrorReply(<<"Server error: ">> \o exc.text), msg, cs)
  ELSE Unbound(msg, cs)

\* the try block of generate_reply on the caller's mapping msg; the result
\* names the reply (or the fault), the caller's mapping as the call leaves
\* it, and the handler calls made: a call is logged when the call expression
\* is evaluated, whether or not the binding of its arguments then succeeds
GenerateReply(fd, msg) ==
  LET v == validate_json(fd, msg) IN
  IF ~v.ok THEN ExceptClauses(v.exc, msg, <<>>)
  ELSE LET d == decode_payload(v.val) IN
    IF ~d.ok THEN ExceptClauses(d.exc, msg, <<>>)
    ELSE LET h == fd[d.val["type"]]
             call == [handler |-> h, kwargs |-> d.val]
             r == Invoke(h, d.val)
         IN
      IF ~r.ok THEN ExceptClauses(r.exc, Dict(d.val), <<call>>)
      ELSE LET e == encode_payload([status |-> "ok", payload |-> r.val]) IN
        IF ~e.ok THEN ExceptClauses(e.exc, Dict(d.val), <<call>>)
        ELSE Returned(e.val, Dict(d.val), <<call>>)

(***************************************************************************)
(* Inputs of the dispatcher.                                               *)
(***************************************************************************)
RegisteredTypes == {"echo", "pdf"}

MessageTypes == RegisteredTypes \cup {"nonexistent"}

DispatchBinary == SeqsUpTo({104, 105}, MaxLen)

\* the canonical encodings of the binary payloads
ValidPayloads == {decode_utf8(Bytes(b2a_base64(P))) : P \in DispatchBinary}

GarbagePayloads ==
  { Str(<<"n","o","t","-","v","a","l","i","d","-","e","n","c","o","d","i","n","g","!","!">>),
    Str(<<"a","G","-","k","=">>),
    Str(<<"!","!">>),
    Str(<<"a","G","k","!">>) }

MalformedPayloads ==
  { Str(<<"a","G","k">>),
    Str(<<"a">>),
    Str(<<"a","G","l","=">>),
    Str(<<"a","G","k","=","a","G","k","=">>) }

OtherPayloads == {Bytes(<<104, 105>>), Bytes(<<97, 71, 107, 61>>), IntValue}

PayloadInputs == ValidPayloads \cup GarbagePayloads \cup MalformedPayloads \cup OtherPayloads

NameInputs == {Bytes(<<105>>)}

(***************************************************************************)
(* The dispatcher and its caller as a state machine.                       *)
(***************************************************************************)
Init ==
  /\ function_dictionary \in {EmptyDict, [echo |-> "echo"]}
  /\ lastRegistered = function_dictionary
  /\ message = Dict(EmptyDict)
  /\ pc = "ready"
  /\ request = Dict(EmptyDict)
  /\ reply = NoReply
  /\ fault = NoFault
  /\ calls = <<>>

\* the caller holds a mapping that no call has answered yet
Fresh(m) ==
  /\ message' = m
  /\ pc' = "ready"
  /\ request' = Dict(EmptyDict)
  /\ reply' = NoReply
  /\ fault' = NoFault
  /\ calls' = <<>>
  /\ UNCHANGED <<function_dictionary, lastRegistered>>

NewMessage == Fresh(Dict(EmptyDict))

NotAMapping == Fresh(NoneValue)

SetType ==
  /\ message.kind = "dict"
  /\ \E t \in MessageTypes : Fresh(Dict(Put(message.fields, "type", t)))

SetPayload ==
  /\ message.kind = "dict"
  /\ \E p \in PayloadInputs : Fresh(Dict(Put(message.fields, "payload", p)))

SetName ==
  /\ message.kind = "dict"
  /\ \E n \in NameInputs : Fresh(Dict(Put(message.fields, "name", n)))

add_function ==
  \E file_type \in RegisteredTypes, f \in Handlers :
    /\ function_dictionary' = RegistryPut(function_dictionary, file_type, f)
    /\ lastRegistered' = Put(lastRegistered, file_type, f)
    /\ UNCHANGED <<message, pc, request, reply, fault, calls>>

generate_reply ==
  LET r == GenerateReply(function_dictionary, message) IN
  /\ request' = message
  /\ message' = r.message
  /\ reply' = r.reply
  /\ fault' = r.fault
  /\ calls' = r.calls
  /\ pc' = "done"
  /\ UNCHANGED <<function_dictionary, lastRegistered>>

Next ==
  \/ NewMessage
  \/ NotAMapping
  \/ SetType
  \/ SetPayload
  \/ SetName
  \/ add_function
  \/ generate_reply

Spec == Init /\ [][Next]_vars

(***************************************************************************)
(* The transcoder alone: a mapping with a binary payload is encoded, then  *)
(* decoded.                                                                *)
(***************************************************************************)
InitCodec ==
  /\ \E P \in BinaryPayloads : message = Dict([payload |-> Bytes(P)])
  /\ request = message
  /\ pc = "binary"
  /\ function_dictionary = EmptyDict
  /\ lastRegistered = EmptyDict
  /\ reply = NoReply
  /\ fault = NoFault
  /\ calls = <<>>

EncodeStep ==
  /\ pc = "binary"
  /\ LET r == encode_payload(message.fields) IN
       IF r.ok
       THEN /\ message' = Dict(r.val)
            /\ pc' = "encoded"
            /\ fault' = NoFault
       ELSE /\ message' = message
            /\ pc' = "failed"
            /\ fault' = r.exc.cls
  /\ UNCHANGED <<function_dictionary, lastRegistered, request, reply, calls>>

DecodeStep ==
  /\ pc = "encoded"
  /\ LET r == decode_payload(message.fields) IN
       IF r.ok
       THEN /\ message' = Dict(r.val)
            /\ pc' = "decoded"
            /\ fault' = NoFault
       ELSE /\ message' = message
            /\ pc' = "failed"
            /\ fault' = r.exc.cls
  /\ UNCHANGED <<function_dictionary, lastRegistered, request, reply, calls>>

NextCodec ==
  \/ EncodeStep
  \/ DecodeStep

SpecCodec == InitCodec /\ [][NextCodec]_vars

(***************************************************************************)
(* Vocabulary of the properties.                                           *)
(***************************************************************************)
\* the base64 alphabet with its padding character
Base64Chars == Range(Upper) \cup Range(Lower) \cup Range(Digit) \cup {"+", "/", "="}

HasCharOutsideAlphabet(s) == \E i \in 1..Len(s) : s[i] \notin Base64Chars

\* the text is the encoding of some binary payload
ValidlyEncoded(p) == p \in ValidPayloads

BinaryOf(p) == CHOOSE P \in DispatchBinary : decode_utf8(Bytes(b2a_base64(P))) = p

HasField(m, key) == m.kind = "dict" /\ key \in DOMAIN m.fields

\* the message names a type of the registry
TypeRegistered(fd, m) == HasField(m, "type") /\ m.fields["type"] \in DOMAIN fd

Replied == pc = "done"

\* a handler was called, and this is how the call ended
HandlerCalled == Replied /\ calls # <<>>

HandlerOutcome == Invoke(calls[1].handler, calls[1].kwargs)

MissingFieldReply(key) ==
  ErrorReply(<<"JSON object missing required field", "'" \o key \o "'">>)

\* the fields a handler reads from its keyword arguments
ExpectedFields(h) ==
  CASE h = "echo" -> {"payload"}
    [] h = "name_of" -> {"name"}
    [] h = "greet" -> {"type", "payload", "name"}
    [] OTHER -> {}

(***************************************************************************)
(* C1: every generate_reply call returns a mapping with exactly the keys   *)
(* status and payload, status being ok or error, and no fault leaves the   *)
(* call.                                                                   *)
(***************************************************************************)
C1_AlwaysReplies ==
  Replied =>
    /\ fault = NoFault
    /\ DOMAIN reply = {"status", "payload"}
    /\ reply["status"] \in {"ok", "error"}

(***************************************************************************)
(* C2: a registered type with a str payload that holds a character outside *)
(* the base64 alphabet gets the reply "Message payload cannot be decoded   *)
(* from base64", and no handler is called.                                 *)
(***************************************************************************)
C2_GarbageRejected ==
  [][ ( /\ generate_reply
        /\ TypeRegistered(function_dictionary, message)
        /\ HasField(message, "payload")
        /\ message.fields["payload"].k = "str"
        /\ HasCharOutsideAlphabet(message.fields["payload"].v) )
      => ( /\ fault' = NoFault
           /\ reply' = ErrorReply(PayloadNotBase64Error.text)
           /\ calls' = <<>> ) ]_vars

(***************************************************************************)
(* C3 as stated: a handler fault outside the four error kinds, whatever    *)
(* its class, gets the reply "Server error: " + its text.                  *)
(***************************************************************************)
C3_AnyHandlerFaultIsServerError ==
  (HandlerCalled /\ ~HandlerOutcome.ok /\ HandlerOutcome.exc.cls \notin OwnKinds)
    => ( /\ fault = NoFault
         /\ reply = ErrorReply(<<"Server error: ">> \o HandlerOutcome.exc.text) )

(***************************************************************************)
(* C3 amended: a handler fault outside the four error kinds gets the       *)
(* missing-field reply when it is a KeyError, "Server error: " + its text  *)
(* when it is any other class derived from Exception, and no reply at all  *)
(* (UnboundLocalError leaves the call) when it is not derived from         *)
(* Exception.                                                              *)
(***************************************************************************)
C3_HandlerFaultByClass ==
  (HandlerCalled /\ ~HandlerOutcome.ok /\ HandlerOutcome.exc.cls \notin OwnKinds)
    => LET e == HandlerOutcome.exc IN
       IF e.cls = "KeyError"
       THEN /\ fault = NoFault
            /\ reply = ErrorReply(<<"JSON object missing required field">> \o e.text)
       ELSE IF e.cls \in NonExceptionClasses
       THEN /\ fault = "UnboundLocalError"
            /\ reply = NoReply
       ELSE /\ fault = NoFault
            /\ reply = ErrorReply(<<"Server error: ">> \o e.text)

C3_Witness ==
  /\ HandlerCalled
  /\ calls[1].handler = "fail"
  /\ fault = NoFault
  /\ reply = ErrorReply(<<"Server error: ", "boom">>)

(***************************************************************************)
(* C4: a message whose type is not a key of the registry gets exactly the  *)
(* reply "File type not recognized" whatever its payload; the message is   *)
(* left as it was and no handler is called.                                *)
(***************************************************************************)
C4_UnknownType ==
  [][ ( /\ generate_reply
        /\ HasField(message, "type")
        /\ message.fields["type"] \notin DOMAIN function_dictionary )
      => ( /\ fault' = NoFault
           /\ reply' = ErrorReply(<<"File type not recognized">>)
           /\ message' = message
           /\ calls' = <<>> ) ]_vars

C4_Witness ==
  /\ Replied
  /\ HasField(request, "type")
  /\ request.fields["type"] = "nonexistent"
  /\ HasField(request, "payload")
  /\ request.fields["payload"] = Str(<<"a", "G", "k">>)
  /\ message = request
  /\ reply = ErrorReply(<<"File type not recognized">>)

C6_MissingHandlerFieldNamed ==
  (HandlerCalled /\ ExpectedFields(calls[1].handler) \ DOMAIN calls[1].kwargs # {})
    => ( /\ fault = NoFault
         /\ \E key \in ExpectedFields(calls[1].handler) \ DOMAIN calls[1].kwargs :
              reply = MissingFieldReply(key) )

(***************************************************************************)
(* C6 amended: when the handler expects a field the message lacks, the     *)
(* reply is "Server error: " + the TypeError text if the handler declares  *)
(* the field as a required parameter, and the missing-field reply naming   *)
(* the field only if the handler looks it up by key.                       *)
(***************************************************************************)
C6_MissingHandlerFieldByUse ==
  (HandlerCalled /\ ExpectedFields(calls[1].handler) \ DOMAIN calls[1].kwargs # {})
    => LET h == calls[1].handler
           lacking == ExpectedFields(h) \ DOMAIN calls[1].kwargs
       IN
       /\ fault = NoFault
       /\ IF RequiredParams(h) \ DOMAIN calls[1].kwargs # {}
          THEN /\ HandlerOutcome.exc.cls = "TypeError"
               /\ reply = ErrorReply(<<"Server error: ">> \o HandlerOutcome.exc.text)
          ELSE \E key \in lacking : reply = MissingFieldReply(key)

C6_Witness ==
  /\ HandlerCalled
  /\ calls[1].handler = "greet"
  /\ "name" \notin DOMAIN calls[1].kwargs
  /\ fault = NoFault
  /\ reply = ErrorReply(<<"Server error: ", "greet", "() missing ", "1",
                          " required positional argument: ", "'name'">>)

(***************************************************************************)
(* C7: when the handler returns a result that cannot be encoded to base64, *)
(* the reply is exactly "Cannot encode payload into base64".               *)
(***************************************************************************)
C7_UnencodableResult ==
  (HandlerCalled /\ HandlerOutcome.ok /\ ~b64encode(HandlerOutcome.val).ok)
    => ( /\ fault = NoFault
         /\ reply = ErrorReply(<<"Cannot encode payload into base64">>) )

(***************************************************************************)
(* C8: for a registered type T and a validly encoded payload, the handler  *)
(* most recently registered for T is called exactly once with every field  *)
(* of the message, payload replaced by its decoded binary; when it returns *)
(* binary R the reply is ok with the encoding of R, and an echo handler    *)
(* gives back the original payload.                                        *)
(***************************************************************************)
C8_HappyPath ==
  [][ ( /\ generate_reply
        /\ TypeRegistered(function_dictionary, message)
        /\ HasField(message, "payload")
        /\ ValidlyEncoded(message.fields["payload"]) )
      => LET T == message.fields["type"]
             kwargs == Put(message.fields, "payload",
                           Bytes(BinaryOf(message.fields["payload"])))
             r == Invoke(lastRegistered[T], kwargs)
         IN
         /\ calls' = << [handler |-> lastRegistered[T], kwargs |-> kwargs] >>
         /\ (r.ok /\ r.val.k = "bytes")
              => /\ fault' = NoFault
                 /\ reply' = [status |-> "ok",
                              payload |-> decode_utf8(Bytes(b2a_base64(r.val.v)))]
         /\ lastRegistered[T] = "echo"
              => reply' = [status |-> "ok", payload |-> message.fields["payload"]]
    ]_vars

C8_Witness ==
  /\ HandlerCalled
  /\ calls[1].handler = "echo"
  /\ calls[1].kwargs["payload"] = Bytes(<<104, 105, 104>>)
  /\ request.fields["payload"] = Str(<<"a", "G", "l", "o">>)
  /\ "name" \in DOMAIN calls[1].kwargs
  /\ fault = NoFault
  /\ reply = [status |-> "ok", payload |-> Str(<<"a", "G", "l", "o">>)]

(***************************************************************************)
(* C9: encoding a mapping with a binary payload P and decoding the result  *)
(* gives a mapping whose payload is P, and neither call fails.             *)
(***************************************************************************)
C9_RoundTrip ==
  /\ pc # "failed"
  /\ fault = NoFault
  /\ pc = "decoded" => message = request

C9_Witness ==
  /\ pc = "decoded"
  /\ request.fields["payload"] = Bytes(<<255, 0, 105>>)
  /\ message = request

(***************************************************************************)
(* C10: calling generate_reply again on the same mapping, with the same    *)
(* registry, gives the same reply as the call just made.                   *)
(***************************************************************************)
C10_RepeatGivesSameReply ==
  [][ generate_reply
      => LET again == GenerateReply(function_dictionary', message') IN
         /\ again.fault = fault'
         /\ again.reply = reply' ]_vars

====
